---- MODULE Spec2Model ----
(***************************************************************************)
(* A model of shulkers-cli's plugin lookup: the read-through TTL cache of  *)
(* the catalog adapters (handlers/Sources), the Spigot adapter, and the    *)
(* info/search commands (merge of the two catalogs' results and the        *)
(* disambiguation of processSearchResults / fuzzySearch).                  *)
(*                                                                         *)
(* Three specifications share the module:                                  *)
(*   SpecCache  - overlapping withCache calls on a cache, with a clock;    *)
(*   SpecSpigot - SpigotAPI / Spigot_IDtoResource calls over that cache;   *)
(*   SpecInfo   - the info and search commands, with abstract adapters.    *)
(***************************************************************************)
EXTENDS Integers, Sequences, FiniteSets, TLC

VARIABLES
    cache,      \* key -> cache entry (the module-level `cache` record)
    clock,      \* Date.now(), in milliseconds
    ticks,      \* number of clock advances so far (bounds the model)
    calls,      \* withCache invocations: slot -> call record
    reqs,       \* SpigotAPI / Spigot_IDtoResource invocations: slot -> request
    returned,   \* the adapter call that returned last, and its value
    mcache,     \* the Modrinth adapter's own `cache` record
    mreqs,      \* ModrinthAPI invocations: slot -> request
    mhits,      \* the hit objects of each search response, by the slot of
                \* the call that received it; cached and handed out by
                \* reference
    cmd,        \* the command run: "info" or "search"
    pc,         \* where the command's action is
    query,      \* the [name] / [query] argument
    source,     \* the source handed to getPluginInfo / searchPlugins
    byId,       \* the --id option
    spigotTask,     \* the Spigot adapter call: none, pending, ok, null, threw
    modrinthTask,   \* the Modrinth adapter call, likewise
    spigotResults,  \* `let spigotResults: any[] = []`
    modrinthResults,\* `let modrinthResults: any[] = []`
    settled,    \* the adapter calls that have settled, in the order they did
    allResults, \* the merged list
    fuseHits,   \* what fuse.search made of each merged record
    out         \* what the command has shown

spigotVars == <<reqs, returned>>

modrinthVars == <<mcache, mreqs, mhits>>

adapterVars ==
    <<cache, clock, ticks, calls, reqs, returned, mcache, mreqs, mhits>>

infoVars ==
    <<cmd, pc, query, source, byId, spigotTask, modrinthTask, spigotResults,
      modrinthResults, settled, allResults, fuseHits, out>>

vars ==
    <<cache, clock, ticks, calls, reqs, returned, mcache, mreqs, mhits,
      cmd, pc, query, source,
      byId, spigotTask, modrinthTask, spigotResults, modrinthResults,
      settled, allResults, fuseHits, out>>

-----------------------------------------------------------------------------
(* Bounds of the model.                                                    *)

MaxCalls == 2
MaxTicks == 3

-----------------------------------------------------------------------------
(* The TTL cache: spigot.ts lines 8-44 (the Modrinth adapter holds an      *)
(* identical copy, lines 212-248).                                         *)

CACHE_TTL == 5 * 60 * 1000

\* Amounts by which the clock advances between two steps of the program.
TickSteps == {1, CACHE_TTL - 1}

Keys == {"k1", "k2"}

\* Cached values are records of one shape: a plain value, null, a list of
\* resources, one resource, or a version object.
Value(n) == [kind |-> "value", items |-> <<>>, name |-> n]

NullData == [kind |-> "null", items |-> <<>>, name |-> ""]

NoData == [kind |-> "none", items |-> <<>>, name |-> ""]

\* `[]`: a search that found nothing.
EmptyList == [kind |-> "list", items |-> <<>>, name |-> ""]

\* Values a fetchData promise resolves to in SpecCache.
Data == {Value("v1"), Value("v2"), NullData, EmptyList}

\* cache[key] === undefined
NoEntry == [present |-> FALSE, timestamp |-> 0, data |-> NoData]

CacheEntry(timestamp, data) ==
    [present |-> TRUE, timestamp |-> timestamp, data |-> data]

\* A validity test that also wants the stored data to be truthy.
IsValid_DataTruthy(entry, now) ==
    /\ entry.present
    /\ entry.data.kind # "null"
    /\ now - entry.timestamp < CACHE_TTL

\* A validity test that still accepts an entry exactly CACHE_TTL old.
IsValid_Inclusive(entry, now) ==
    entry.present /\ now - entry.timestamp <= CACHE_TTL

\* `cache[key] && now - cache[key].timestamp < CACHE_TTL`: the entry object
\* is tested, not its data, so an entry holding null is a valid entry.
IsValid(entry, now) ==
    entry.present /\ now - entry.timestamp < CACHE_TTL

\* A store that leaves alone an entry at least as recent as the caller's
\* `now`, so that the first of two racing writes stays.
CacheStore_KeepsFirst(c, key, now, data) ==
    IF c[key].present /\ c[key].timestamp >= now
    THEN c
    ELSE [c EXCEPT ![key] = CacheEntry(now, data)]

\* `cache[key] = { timestamp: now, data }`; `now` is the caller's constant,
\* read before fetchData was awaited.
CacheStore(c, key, now, data) ==
    [c EXCEPT ![key] = CacheEntry(now, data)]

\* A withCache that catches the rejection and stores null under the key.
CacheAfterReject_StoresNull(c, key, now) ==
    [c EXCEPT ![key] = CacheEntry(now, NullData)]

\* What the rejection of the awaited fetchData leaves of the cache: the
\* exception leaves withCache at the await, before the store.
CacheAfterReject(c, key, now) == c

Slots == 1 .. MaxCalls

IdleCall ==
    [st |-> "idle", key |-> "k1", now |-> 0, fetch |-> "none", ret |-> NoData]

\* withCache up to its first suspension: reads the clock, then either
\* returns the valid entry's data or invokes fetchData and awaits it.
WithCacheBegin(s, key) ==
    /\ calls[s].st = "idle"
    /\ \A t \in Slots : t < s => calls[t].st # "idle"
    /\ calls' = [calls EXCEPT ![s] =
          IF IsValid(cache[key], clock)
          THEN [st |-> "returned", key |-> key, now |-> clock,
                fetch |-> "none", ret |-> cache[key].data]
          ELSE [st |-> "await", key |-> key, now |-> clock,
                fetch |-> "pending", ret |-> NoData]]
    /\ UNCHANGED <<cache, clock, ticks, spigotVars, modrinthVars, infoVars>>

\* fetchData resolved with `data`: store it and return it.
WithCacheResolve(s, data) ==
    /\ calls[s].st = "await"
    /\ cache' = CacheStore(cache, calls[s].key, calls[s].now, data)
    /\ calls' = [calls EXCEPT ![s].st = "returned",
                              ![s].fetch = "resolved",
                              ![s].ret = data]
    /\ UNCHANGED <<clock, ticks, spigotVars, modrinthVars, infoVars>>

\* fetchData rejected: the exception propagates out of withCache.
WithCacheReject(s) ==
    /\ calls[s].st = "await"
    /\ cache' = CacheAfterReject(cache, calls[s].key, calls[s].now)
    /\ calls' = [calls EXCEPT ![s].st = "threw", ![s].fetch = "rejected"]
    /\ UNCHANGED <<clock, ticks, spigotVars, modrinthVars, infoVars>>

\* Time passes.
Tick(d) ==
    /\ ticks < MaxTicks
    /\ clock' = clock + d
    /\ ticks' = ticks + 1
    /\ UNCHANGED <<cache, calls, spigotVars, modrinthVars, infoVars>>

\* What a command has shown: the spinner's end, whether an input error
\* was printed, and the views displayed (detail views and tables) in order.
NoOutput == [spinner |-> "spinning", error |-> FALSE, views |-> <<>>]

\* No command has been run.
InfoIdle ==
    /\ cmd = "none"
    /\ pc = "idle"
    /\ query = <<>>
    /\ source = <<>>
    /\ byId = <<>>
    /\ spigotTask = "none"
    /\ modrinthTask = "none"
    /\ spigotResults = <<>>
    /\ modrinthResults = <<>>
    /\ settled = <<>>
    /\ allResults = <<>>
    /\ fuseHits = <<>>
    /\ out = NoOutput

\* No ModrinthAPI call has been made.
ModrinthIdle ==
    /\ mcache = <<>>
    /\ mreqs = <<>>
    /\ mhits = <<>>

InitCache ==
    /\ cache = [k \in Keys |-> NoEntry]
    /\ clock = 0
    /\ ticks = 0
    /\ calls = [s \in Slots |-> IdleCall]
    /\ reqs = <<>>
    /\ returned = [slot |-> 0, value |-> NoData]
    /\ ModrinthIdle
    /\ InfoIdle

NextCache ==
    \/ \E s \in Slots, k \in Keys : WithCacheBegin(s, k)
    \/ \E s \in Slots, d \in Data : WithCacheResolve(s, d)
    \/ \E s \in Slots : WithCacheReject(s)
    \/ \E d \in TickSteps : Tick(d)

SpecCache == InitCache /\ [][NextCache]_vars

\* The call in slot s invoked its fetchData.
Computed(s) == calls[s].fetch # "none"

\* C1 (as claimed): two withCache calls with the same key made within
\* CACHE_TTL of each other never both invoke fetchData, and a call that
\* finds the key's entry expired invokes fetchData again.
C1_ComputeOncePerTTL ==
    [][ /\ \A s, t \in Slots :
             ( /\ s # t
               /\ calls'[s].st # "idle"
               /\ calls'[t].st # "idle"
               /\ calls'[s].key = calls'[t].key
               /\ calls'[t].now - calls'[s].now < CACHE_TTL
               /\ calls'[s].now - calls'[t].now < CACHE_TTL )
             => ~(calls'[s].fetch # "none" /\ calls'[t].fetch # "none")
        /\ \A s \in Slots :
             ( /\ calls[s].st = "idle"
               /\ calls'[s].st # "idle"
               /\ cache[calls'[s].key].present
               /\ clock - cache[calls'[s].key].timestamp >= CACHE_TTL )
             => calls'[s].fetch = "pending"
      ]_vars

\* C3: when the fetchData of a withCache call rejects, the call throws and
\* the cache is exactly what it was before the rejection: no entry appears
\* under the key and an expired entry under the key keeps its timestamp and
\* data.
C3_RejectLeavesCacheUntouched ==
    [][ \A s \in Slots :
          (calls[s].fetch = "pending" /\ calls'[s].fetch = "rejected")
          => (calls'[s].st = "threw" /\ cache' = cache)
      ]_vars

\* A call found an expired entry under its key, invoked fetchData, and has
\* thrown because fetchData rejected; the expired entry is still there.
C3_Witness ==
    \E s \in Slots :
        /\ calls[s].st = "threw"
        /\ calls[s].fetch = "rejected"
        /\ cache[calls[s].key].present
        /\ ~IsValid(cache[calls[s].key], calls[s].now)

\* The step is the call in slot s reading the clock and the cache.
Begins(s) == calls[s].st = "idle" /\ calls'[s].st # "idle"

\* The step is the fetchData of the call in slot s resolving.
Resolves(s) == calls[s].st = "await" /\ calls'[s].fetch = "resolved"

\* C11: withCache calls for one key that start while another is awaiting
\* its compute, and before any of them has left a fresh entry, are not
\* deduplicated: each sees a miss and invokes its own compute; each call
\* writes its result when its compute resolves, whatever a racing call
\* wrote before, so the entry that remains is the one written last; and a
\* later call served from the cache gets that entry's value.
C11_NoDedupLastWriteWins ==
    [][ \A s \in Slots :
          /\ ( /\ Begins(s)
               /\ \E t \in Slots \ {s} :
                     calls[t].st = "await" /\ calls[t].key = calls'[s].key
               /\ \A u \in Slots :
                     (calls[u].fetch = "resolved"
                        /\ calls[u].key = calls'[s].key)
                     => clock - calls[u].now >= CACHE_TTL )
             => calls'[s].fetch = "pending"
          /\ Resolves(s)
             => /\ cache'[calls[s].key].present
                /\ cache'[calls[s].key].data = calls'[s].ret
          /\ (Begins(s) /\ calls'[s].fetch = "none")
             => calls'[s].ret = cache[calls'[s].key].data
      ]_vars

\* Two calls for one key raced with different results and the one that
\* started first wrote last: the entry holds its value. (Had the first
\* resolved before the second started, the second would have been served
\* from the cache or would have written last.)
C11_Witness ==
    \E s, t \in Slots :
        /\ s < t
        /\ calls[s].key = calls[t].key
        /\ calls[s].fetch = "resolved" /\ calls[t].fetch = "resolved"
        /\ calls[s].now = calls[t].now
        /\ calls[s].ret # calls[t].ret
        /\ cache[calls[s].key].data = calls[s].ret

\* C12: a call that finds a valid entry under its key (now - timestamp <
\* TTL) returns the entry's stored value without invoking compute and
\* without writing the cache, also when the stored value is null or an
\* empty list.
C12_ValidEntryServed ==
    [][ \A s \in Slots :
          ( /\ Begins(s)
            /\ cache[calls'[s].key].present
            /\ clock - cache[calls'[s].key].timestamp < CACHE_TTL )
          => /\ calls'[s].st = "returned"
             /\ calls'[s].fetch = "none"
             /\ calls'[s].ret = cache[calls'[s].key].data
             /\ cache' = cache
      ]_vars

\* A call was served a cached null: the entry counts, not its data.
C12_Witness ==
    \E s \in Slots :
        /\ calls[s].st = "returned" /\ calls[s].fetch = "none"
        /\ calls[s].ret = NullData
        /\ cache[calls[s].key] = CacheEntry(cache[calls[s].key].timestamp,
                                            NullData)

\* C13 (as claimed): on a miss the result is stored under the key with the
\* time at which it is stored, so that the fresh entry is valid for a full
\* TTL from the moment it was written.
C13_StoredWithCurrentTime ==
    [][ \A s \in Slots :
          Resolves(s)
          => /\ cache'[calls[s].key].timestamp = clock
             /\ IsValid(cache'[calls[s].key], clock + CACHE_TTL - 1)
      ]_vars

\* C14: an entry is valid iff now - timestamp < 5 minutes, so that a call
\* is served from the cache exactly then and an entry exactly TTL old is
\* not; a call that finds an invalid entry invokes compute as if there
\* were none and overwrites it when compute resolves; and no step removes
\* a key from the cache.
C14_ValidityAndNoEviction ==
    [][ /\ \A s \in Slots :
             /\ Begins(s)
                => ( calls'[s].fetch = "none"
                     <=> ( /\ cache[calls'[s].key].present
                           /\ clock - cache[calls'[s].key].timestamp
                                  < 5 * 60 * 1000 ) )
             /\ (Begins(s) /\ calls'[s].fetch # "none")
                => /\ calls'[s].fetch = "pending"
                   /\ calls'[s].st = "await"
             /\ Resolves(s)
                => cache'[calls[s].key] =
                      [present |-> TRUE, timestamp |-> calls[s].now,
                       data |-> calls'[s].ret]
        /\ \A k \in Keys : cache[k].present => cache'[k].present
      ]_vars

\* A call found an entry exactly TTL old under its key, invoked compute,
\* and has overwritten the entry.
C14_Witness ==
    \E s, t \in Slots :
        /\ s < t
        /\ calls[s].key = calls[t].key
        /\ calls[s].fetch = "resolved" /\ calls[t].fetch = "resolved"
        /\ calls[t].now - calls[s].now = CACHE_TTL
        /\ cache[calls[t].key] = CacheEntry(calls[t].now, calls[t].ret)

-----------------------------------------------------------------------------
(* The Spigot adapter: spigot.ts lines 46-194.                             *)

MaxReqs == 2
MaxSpigotTicks == 1

ReqSlots == 1 .. MaxReqs

\* The clock of SpecSpigot advances by a whole TTL at a time.
SpigotTickSteps == {CACHE_TTL}

\* Strings that take part in key building are sequences of characters.
SpigotQueries == { <<"a">> }

\* The `limit` argument; 0 stands for an omitted (undefined) or zero limit.
Limits == {0, 5}

ResourceIds == {1, 2}

\* What spiget.search may resolve to: the ids of the resources found.
SearchHits == { <<>>, <<1>>, <<1, 2>> }

\* version.name of the object resource.getVersion("latest") resolves to.
VersionNames == {"7", "1.2"}

Digit(d) == <<"0", "1", "2", "3", "4", "5", "6", "7", "8", "9">>[d + 1]

\* `${n}` for a non-negative integer n.
RECURSIVE NumToString(_)
NumToString(n) ==
    IF n < 10 THEN <<Digit(n)>>
    ELSE NumToString(n \div 10) \o <<Digit(n % 10)>>

\* `const maxResults = limit ? limit : 10`
MaxResults(limit) == IF limit # 0 THEN limit ELSE 10

\* A key without the separator between the query and the limit.
SearchKey_NoSeparator(q, limit) ==
    <<"s", "e", "a", "r", "c", "h", ":">> \o q
        \o NumToString(MaxResults(limit))

\* `search:${query}:${maxResults}`
SearchKey(q, limit) ==
    <<"s", "e", "a", "r", "c", "h", ":">> \o q \o <<":">>
        \o NumToString(MaxResults(limit))

\* `resource:${id}`
ResourceKey(id) ==
    <<"r", "e", "s", "o", "u", "r", "c", "e", ":">> \o NumToString(id)

\* `version:${resource.id}`
VersionKey(id) ==
    <<"v", "e", "r", "s", "i", "o", "n", ":">> \o NumToString(id)

SpigotKeys ==
    {SearchKey(q, l) : q \in SpigotQueries, l \in Limits}
        \cup {ResourceKey(i) : i \in ResourceIds}
        \cup {VersionKey(i) : i \in ResourceIds}

\* A resource as the transport delivers it: version_raw is not set yet.
NewResource(id) == [id |-> id, version_raw |-> "unset"]

ListData(items) == [kind |-> "list", items |-> items, name |-> ""]

ResourceData(resource) ==
    [kind |-> "resource", items |-> <<resource>>, name |-> ""]

VersionData(name) == [kind |-> "version", items |-> <<>>, name |-> name]

\* What resource.getVersion("latest") may resolve to.
VersionResults == {VersionData(n) : n \in VersionNames} \cup {NullData}

\* /^\d+$/.test(versionName)
IsDigits(name) == name = "7"

\* `${versionName}.0`
WithDotZero(name) == IF name = "7" THEN "7.0" ELSE name

\* `if (version) { ... resource.version_raw = ... }`
ApplyVersion(resource, version) ==
    IF version.kind = "version"
    THEN [resource EXCEPT !.version_raw =
            IF IsDigits(version.name) THEN WithDotZero(version.name)
            ELSE version.name]
    ELSE resource

\* `catch (error) { resource.version_raw = "Unknown" }`
ApplyVersionFailure(resource) == [resource EXCEPT !.version_raw = "Unknown"]

IdleReq ==
    [op |-> "none", st |-> "idle", key |-> <<>>, now |-> 0, hit |-> FALSE,
     transport |-> "none", results |-> <<>>, pend |-> {}, vnow |-> 0]

\* The value the adapter's fetchData resolves to when its transport call
\* threw: the inner `catch (innerError) { ...; return null; }`.
ComputeAfterTransportError == NullData

\* The value fetchData resolves to once every version lookup has settled.
ComputeResult(req) ==
    IF req.op = "search" THEN ListData(req.results)
    ELSE ResourceData(req.results[1])

\* A request that has returned keeps what it was and how it was answered;
\* its working state is gone with the call.
ReqFinish(req) ==
    [IdleReq EXCEPT !.op = req.op, !.st = "returned", !.key = req.key,
                    !.hit = req.hit, !.transport = req.transport]

Returned(r, data) == [slot |-> r, value |-> data]

\* The adapter call up to its first suspension: the key is built, withCache
\* reads the clock and either answers from the cache or starts the transport.
ReqBegin(r, op, key) ==
    /\ reqs[r].st = "idle"
    /\ \A t \in ReqSlots : t < r => reqs[t].st # "idle"
    /\ IF IsValid(cache[key], clock)
       THEN /\ reqs' = [reqs EXCEPT ![r] =
                   [IdleReq EXCEPT !.op = op, !.st = "returned",
                                   !.key = key, !.hit = TRUE]]
            /\ returned' = Returned(r, cache[key].data)
       ELSE /\ reqs' = [reqs EXCEPT ![r] =
                   [IdleReq EXCEPT !.op = op, !.st = "transport",
                                   !.key = key, !.now = clock,
                                   !.transport = "pending"]]
            /\ returned' = returned
    /\ UNCHANGED <<cache, clock, ticks, calls, modrinthVars, infoVars>>

SpigotAPIBegin(r, q, limit) == ReqBegin(r, "search", SearchKey(q, limit))

IDtoResourceBegin(r, id) == ReqBegin(r, "resource", ResourceKey(id))

\* The transport delivered `ids`. Every resource starts its version lookup
\* (a nested withCache on version:<id>) before the run suspends again: a
\* valid version entry is applied at once, a miss awaits getVersion.
TransportDelivers(r, ids) ==
    LET req == reqs[r]
        fresh == [i \in 1 .. Len(ids) |-> NewResource(ids[i])]
        valid(i) == IsValid(cache[VersionKey(ids[i])], clock)
        results == [i \in 1 .. Len(ids) |->
                      IF valid(i)
                      THEN ApplyVersion(fresh[i], cache[VersionKey(ids[i])].data)
                      ELSE fresh[i]]
        pend == {i \in 1 .. Len(ids) : ~valid(i)}
        started == [req EXCEPT !.transport = "ok", !.st = "versions",
                               !.results = results, !.pend = pend,
                               !.vnow = clock]
    IN  /\ req.st = "transport"
        /\ IF pend = {}
           THEN /\ cache' = CacheStore(cache, req.key, req.now,
                                       ComputeResult(started))
                /\ reqs' = [reqs EXCEPT ![r] = ReqFinish(started)]
                /\ returned' = Returned(r, ComputeResult(started))
           ELSE /\ cache' = cache
                /\ reqs' = [reqs EXCEPT ![r] = started]
                /\ returned' = returned
        /\ UNCHANGED <<clock, ticks, calls, modrinthVars, infoVars>>

\* spiget.search resolved with an array.
SearchReturns(r, ids) ==
    /\ reqs[r].op = "search"
    /\ TransportDelivers(r, ids)

\* spiget.getResource resolved with the resource asked for.
GetResourceReturns(r) ==
    /\ reqs[r].op = "resource"
    /\ \E id \in ResourceIds :
          /\ reqs[r].key = ResourceKey(id)
          /\ TransportDelivers(r, <<id>>)

\* The transport resolved with null: `if (!results) return null`.
TransportReturnsNull(r) ==
    /\ reqs[r].st = "transport"
    /\ cache' = CacheStore(cache, reqs[r].key, reqs[r].now, NullData)
    /\ reqs' = [reqs EXCEPT ![r] =
                   ReqFinish([reqs[r] EXCEPT !.transport = "null"])]
    /\ returned' = Returned(r, NullData)
    /\ UNCHANGED <<clock, ticks, calls, modrinthVars, infoVars>>

\* The transport threw: the inner catch turns the failure into the value
\* fetchData resolves to, which withCache then stores like any other.
TransportThrows(r) ==
    /\ reqs[r].st = "transport"
    /\ cache' = CacheStore(cache, reqs[r].key, reqs[r].now,
                           ComputeAfterTransportError)
    /\ reqs' = [reqs EXCEPT ![r] =
                   ReqFinish([reqs[r] EXCEPT !.transport = "threw"])]
    /\ returned' = Returned(r, ComputeAfterTransportError)
    /\ UNCHANGED <<clock, ticks, calls, modrinthVars, infoVars>>

\* One version lookup settled; when it was the last one, fetchData resolves
\* and withCache stores the results under the adapter's key.
VersionSettles(r, i, c, resource) ==
    LET req == reqs[r]
        after == [req EXCEPT !.results[i] = resource, !.pend = @ \ {i}]
    IN  IF after.pend = {}
        THEN /\ cache' = CacheStore(c, req.key, req.now, ComputeResult(after))
             /\ reqs' = [reqs EXCEPT ![r] = ReqFinish(after)]
             /\ returned' = Returned(r, ComputeResult(after))
        ELSE /\ cache' = c
             /\ reqs' = [reqs EXCEPT ![r] = after]
             /\ returned' = returned

\* resource.getVersion("latest") resolved: the nested withCache stores the
\* version and the resource's version_raw is set from it.
VersionResolves(r, i, version) ==
    /\ reqs[r].st = "versions"
    /\ i \in reqs[r].pend
    /\ VersionSettles(r, i,
          CacheStore(cache, VersionKey(reqs[r].results[i].id),
                     reqs[r].vnow, version),
          ApplyVersion(reqs[r].results[i], version))
    /\ UNCHANGED <<clock, ticks, calls, modrinthVars, infoVars>>

\* resource.getVersion("latest") rejected: only this resource is affected.
VersionRejects(r, i) ==
    /\ reqs[r].st = "versions"
    /\ i \in reqs[r].pend
    /\ VersionSettles(r, i,
          CacheAfterReject(cache, VersionKey(reqs[r].results[i].id),
                           reqs[r].vnow),
          ApplyVersionFailure(reqs[r].results[i]))
    /\ UNCHANGED <<clock, ticks, calls, modrinthVars, infoVars>>

TickSpigot(d) ==
    /\ ticks < MaxSpigotTicks
    /\ clock' = clock + d
    /\ ticks' = ticks + 1
    /\ UNCHANGED <<cache, calls, spigotVars, modrinthVars, infoVars>>

InitSpigot ==
    /\ cache = [k \in SpigotKeys |-> NoEntry]
    /\ clock = 0
    /\ ticks = 0
    /\ calls = <<>>
    /\ reqs = [r \in ReqSlots |-> IdleReq]
    /\ returned = [slot |-> 0, value |-> NoData]
    /\ ModrinthIdle
    /\ InfoIdle

NextSpigot ==
    \/ \E r \in ReqSlots, q \in SpigotQueries, l \in Limits :
          SpigotAPIBegin(r, q, l)
    \/ \E r \in ReqSlots, id \in ResourceIds : IDtoResourceBegin(r, id)
    \/ \E r \in ReqSlots, ids \in SearchHits : SearchReturns(r, ids)
    \/ \E r \in ReqSlots : GetResourceReturns(r)
    \/ \E r \in ReqSlots : TransportReturnsNull(r)
    \/ \E r \in ReqSlots : TransportThrows(r)
    \/ \E r \in ReqSlots, i \in 1 .. 2, v \in VersionResults :
          VersionResolves(r, i, v)
    \/ \E r \in ReqSlots, i \in 1 .. 2 : VersionRejects(r, i)
    \/ \E d \in SpigotTickSteps : TickSpigot(d)

SpecSpigot == InitSpigot /\ [][NextSpigot]_vars

\* C2 (as claimed): when the transport call behind SpigotAPI or
\* Spigot_IDtoResource throws, nothing is written under the request's
\* search/resource key, so that a later identical request asks the catalog
\* again.
C2_FailedFetchNotCached ==
    [][ \A r \in ReqSlots :
          (reqs[r].transport = "pending" /\ reqs'[r].transport = "threw")
          => cache'[reqs[r].key] = cache[reqs[r].key]
      ]_vars

-----------------------------------------------------------------------------
(* Strings of the info and search commands are sequences of characters.   *)

UpperAlpha ==
    <<"A", "B", "C", "D", "E", "F", "G", "H", "I", "J", "K", "L", "M",
      "N", "O", "P", "Q", "R", "S", "T", "U", "V", "W", "X", "Y", "Z">>

LowerAlpha ==
    <<"a", "b", "c", "d", "e", "f", "g", "h", "i", "j", "k", "l", "m",
      "n", "o", "p", "q", "r", "s", "t", "u", "v", "w", "x", "y", "z">>

LowerChar(c) ==
    IF \E i \in 1 .. Len(UpperAlpha) : UpperAlpha[i] = c
    THEN LowerAlpha[CHOOSE i \in 1 .. Len(UpperAlpha) : UpperAlpha[i] = c]
    ELSE c

\* String.prototype.toLowerCase
ToLowerCase(str) == [i \in 1 .. Len(str) |-> LowerChar(str[i])]

\* String.prototype.includes
Includes(str, part) ==
    \E i \in 0 .. Len(str) - Len(part) :
        SubSeq(str, i + 1, i + Len(part)) = part

\* A name the code treats as absent: undefined and "" are both falsy, and
\* the code only ever tests a name's truthiness before using it.
NoName == <<>>

Truthy(str) == str # NoName

-----------------------------------------------------------------------------
(* The Modrinth adapter: spigot.ts lines 196-356 (handlers/Sources/        *)
(* modrinth.ts), with a cache of its own.                                  *)

MaxMReqs == 2

MSlots == 1 .. MaxMReqs

ModrinthQueries == { <<"a">> }

ModrinthLimits == {5}

\* hit.latest_version: the id of a version; NoName when the hit has none.
LatestVersions == { <<"x">>, <<"y">>, NoName }

\* What modrinth.search may resolve to: the latest_version of each hit.
ModrinthSearches ==
    { <<>>, << <<"x">> >>, << <<"x">>, <<"y">> >>, << NoName, <<"x">> >> }

\* `Math.max(1, Math.min(100, value))`
EnsureValidLimit(value) ==
    LET capped == IF value < 100 THEN value ELSE 100
    IN  IF capped > 1 THEN capped ELSE 1

\* `search:${query}:${validLimit}`
ModrinthSearchKey(q, limit) ==
    <<"s", "e", "a", "r", "c", "h", ":">> \o q \o <<":">>
        \o NumToString(EnsureValidLimit(MaxResults(limit)))

\* `version:${hit.latest_version}`
ModrinthVersionKey(id) == <<"v", "e", "r", "s", "i", "o", "n", ":">> \o id

ModrinthKeys ==
    {ModrinthSearchKey(q, l) : q \in ModrinthQueries, l \in ModrinthLimits}
        \cup {ModrinthVersionKey(id) : id \in LatestVersions \ {NoName}}

\* The cached search response: its hits are the objects of slot `owner`.
HitsRef(owner) == [kind |-> "hits", items |-> <<owner>>, name |-> ""]

\* versionInfo, with its version_number.
VersionInfo(number) == [kind |-> "version", items |-> number, name |-> ""]

\* What modrinth.getVersion may resolve to.
VersionInfos == { VersionInfo(<<"1", ".", "0">>), NullData }

\* A hit as modrinth.search delivers it: version_raw is not set.
NewHit(latest) == [latest_version |-> latest, version_raw |-> NoName]

\* `if (!hit.version_raw && hit.latest_version) hit.version_raw = ...`
DefaultVersion(hit) ==
    IF ~Truthy(hit.version_raw) /\ Truthy(hit.latest_version)
    THEN [hit EXCEPT !.version_raw = hit.latest_version]
    ELSE hit

\* `if (versionInfo) hit.version_raw = versionInfo.version_number`
ApplyVersionInfo(hit, info) ==
    IF info.kind = "version"
    THEN [hit EXCEPT !.version_raw = info.items]
    ELSE hit

\* A fallback that overwrites whatever the hit carried.
ApplyLookupFailure_Unknown(hit) ==
    [hit EXCEPT !.version_raw = <<"?">>]

\* `catch (error) { if (!hit.version_raw) hit.version_raw = latest_version }`
ApplyLookupFailure(hit) ==
    IF ~Truthy(hit.version_raw)
    THEN [hit EXCEPT !.version_raw = hit.latest_version]
    ELSE hit

\* A fetchVersionsInBackground that is awaited: nothing is left pending
\* when ModrinthAPI returns.
BackgroundPending_Joined(lookups, answered) == {}

\* The lookups still awaiting modrinth.getVersion when ModrinthAPI returns:
\* fetchVersionsInBackground is called without await, so only the lookups
\* answered from the cache have run by then.
BackgroundPending(lookups, answered) == lookups \ answered

IdleMReq ==
    [st |-> "idle", fetchVersions |-> FALSE, key |-> <<>>, now |-> 0,
     owner |-> 0, pend |-> {}, vnow |-> 0, handed |-> <<>>]

\* ModrinthAPI from the search response to `return hits`: the defaults are
\* set, fetchVersionsInBackground is started when asked for, and the hit
\* objects of slot `owner` are handed to the caller.
ReturnHits(s, req, owner, objs, c) ==
    LET defaulted == [i \in 1 .. Len(objs) |-> DefaultVersion(objs[i])]
        vkey(i) == ModrinthVersionKey(defaulted[i].latest_version)
        lookups == IF req.fetchVersions
                   THEN {i \in 1 .. Len(objs) :
                            Truthy(defaulted[i].latest_version)}
                   ELSE {}
        answered == {i \in lookups : IsValid(c[vkey(i)], clock)}
        applied == [i \in 1 .. Len(objs) |->
                      IF i \in answered
                      THEN ApplyVersionInfo(defaulted[i], c[vkey(i)].data)
                      ELSE defaulted[i]]
    IN  /\ mhits' = [mhits EXCEPT ![owner] = applied]
        /\ mcache' = c
        /\ mreqs' = [mreqs EXCEPT ![s] =
              [req EXCEPT !.st = "returned", !.owner = owner,
                          !.pend = BackgroundPending(lookups, answered),
                          !.vnow = clock, !.handed = applied]]

\* ModrinthAPI(query, limit, fetchVersions) up to its first suspension.
ModrinthAPIBegin(s, q, limit, fetchVersions) ==
    LET key == ModrinthSearchKey(q, limit)
        req == [IdleMReq EXCEPT !.fetchVersions = fetchVersions,
                                !.key = key, !.now = clock]
    IN  /\ mreqs[s].st = "idle"
        /\ \A t \in MSlots : t < s => mreqs[t].st # "idle"
        /\ IF IsValid(mcache[key], clock)
           THEN LET owner == mcache[key].data.items[1]
                IN  ReturnHits(s, req, owner, mhits[owner], mcache)
           ELSE /\ mreqs' = [mreqs EXCEPT ![s] = [req EXCEPT !.st = "search"]]
                /\ UNCHANGED <<mcache, mhits>>
        /\ UNCHANGED <<cache, clock, ticks, calls, spigotVars, infoVars>>

\* modrinth.search resolved: withCache stores the response, whose hits are
\* new objects.
ModrinthSearchResolves(s, latest) ==
    /\ mreqs[s].st = "search"
    /\ ReturnHits(s, mreqs[s], s,
                  [i \in 1 .. Len(latest) |-> NewHit(latest[i])],
                  CacheStore(mcache, mreqs[s].key, mreqs[s].now, HitsRef(s)))
    /\ UNCHANGED <<cache, clock, ticks, calls, spigotVars, infoVars>>

\* modrinth.search rejected: withCache stores nothing and the outer catch
\* returns [].
ModrinthSearchRejects(s) ==
    /\ mreqs[s].st = "search"
    /\ mreqs' = [mreqs EXCEPT ![s].st = "returned"]
    /\ mcache' = CacheAfterReject(mcache, mreqs[s].key, mreqs[s].now)
    /\ UNCHANGED <<mhits, cache, clock, ticks, calls, spigotVars, infoVars>>

\* A background modrinth.getVersion resolved: the version is cached and the
\* hit object is updated in place.
BackgroundVersionResolves(s, i, info) ==
    LET owner == mreqs[s].owner
        hit == mhits[owner][i]
    IN  /\ mreqs[s].st = "returned"
        /\ i \in mreqs[s].pend
        /\ mcache' = CacheStore(mcache, ModrinthVersionKey(hit.latest_version),
                                mreqs[s].vnow, info)
        /\ mhits' = [mhits EXCEPT ![owner][i] = ApplyVersionInfo(hit, info)]
        /\ mreqs' = [mreqs EXCEPT ![s].pend = @ \ {i}]
        /\ UNCHANGED <<cache, clock, ticks, calls, spigotVars, infoVars>>

\* A background modrinth.getVersion rejected: only this hit is touched.
BackgroundVersionRejects(s, i) ==
    LET owner == mreqs[s].owner
        hit == mhits[owner][i]
    IN  /\ mreqs[s].st = "returned"
        /\ i \in mreqs[s].pend
        /\ mcache' = CacheAfterReject(mcache,
                                      ModrinthVersionKey(hit.latest_version),
                                      mreqs[s].vnow)
        /\ mhits' = [mhits EXCEPT ![owner][i] = ApplyLookupFailure(hit)]
        /\ mreqs' = [mreqs EXCEPT ![s].pend = @ \ {i}]
        /\ UNCHANGED <<cache, clock, ticks, calls, spigotVars, infoVars>>

\* `project:${id}`
ModrinthProjectKey(id) == <<"p", "r", "o", "j", "e", "c", "t", ":">> \o id

\* The project modrinth.getProject resolves to.
ProjectData(id) == [kind |-> "project", items |-> id, name |-> ""]

\* modrinth_IDtoResource(id) up to its first suspension: a valid entry is
\* returned, otherwise getProject is awaited.
ProjectBegin(s, id) ==
    LET key == ModrinthProjectKey(id)
        req == [IdleMReq EXCEPT !.key = key, !.now = clock]
    IN  /\ mreqs[s].st = "idle"
        /\ \A t \in MSlots : t < s => mreqs[t].st # "idle"
        /\ mreqs' = [mreqs EXCEPT ![s] =
              IF IsValid(mcache[key], clock)
              THEN [req EXCEPT !.st = "returned",
                               !.handed = <<mcache[key].data>>]
              ELSE [req EXCEPT !.st = "project"]]
        /\ UNCHANGED <<mcache, mhits, cache, clock, ticks, calls,
                       spigotVars, infoVars>>

\* modrinth.getProject resolved: `return resource || null` is stored and
\* returned.
ProjectResolves(s, data) ==
    /\ mreqs[s].st = "project"
    /\ mcache' = CacheStore(mcache, mreqs[s].key, mreqs[s].now, data)
    /\ mreqs' = [mreqs EXCEPT ![s].st = "returned", ![s].handed = <<data>>]
    /\ UNCHANGED <<mhits, cache, clock, ticks, calls, spigotVars, infoVars>>

\* modrinth.getProject rejected: nothing is stored, the catch returns null.
ProjectRejects(s) ==
    /\ mreqs[s].st = "project"
    /\ mcache' = CacheAfterReject(mcache, mreqs[s].key, mreqs[s].now)
    /\ mreqs' = [mreqs EXCEPT ![s].st = "returned",
                              ![s].handed = <<NullData>>]
    /\ UNCHANGED <<mhits, cache, clock, ticks, calls, spigotVars, infoVars>>

-----------------------------------------------------------------------------
(* The two adapters' search calls with their per-record version lookups.   *)
(* The adapters share no state (each has its own cache), so a behaviour    *)
(* exercises one of them.                                                  *)

SpigotQuiet == \A r \in ReqSlots : reqs[r].st = "idle"

ModrinthQuiet == \A s \in MSlots : mreqs[s].st = "idle"

InitVersions ==
    /\ cache = [k \in SpigotKeys |-> NoEntry]
    /\ clock = 0
    /\ ticks = 0
    /\ calls = <<>>
    /\ reqs = [r \in ReqSlots |-> IdleReq]
    /\ returned = [slot |-> 0, value |-> NoData]
    /\ mcache = [k \in ModrinthKeys |-> NoEntry]
    /\ mreqs = [s \in MSlots |-> IdleMReq]
    /\ mhits = [s \in MSlots |-> <<>>]
    /\ InfoIdle

NextVersions ==
    \/ /\ ModrinthQuiet
       /\ \E r \in ReqSlots, q \in SpigotQueries : SpigotAPIBegin(r, q, 5)
    \/ \E r \in ReqSlots, ids \in SearchHits : SearchReturns(r, ids)
    \/ \E r \in ReqSlots : TransportThrows(r)
    \/ \E r \in ReqSlots, i \in 1 .. 2, v \in VersionResults :
          VersionResolves(r, i, v)
    \/ \E r \in ReqSlots, i \in 1 .. 2 : VersionRejects(r, i)
    \/ /\ SpigotQuiet
       /\ \E s \in MSlots, q \in ModrinthQueries, l \in ModrinthLimits,
             fv \in BOOLEAN :
             ModrinthAPIBegin(s, q, l, fv)
    \/ \E s \in MSlots, latest \in ModrinthSearches :
          ModrinthSearchResolves(s, latest)
    \/ \E s \in MSlots : ModrinthSearchRejects(s)
    \/ \E s \in MSlots, i \in 1 .. 2, info \in VersionInfos :
          BackgroundVersionResolves(s, i, info)
    \/ \E s \in MSlots, i \in 1 .. 2 : BackgroundVersionRejects(s, i)

SpecVersions == InitVersions /\ [][NextVersions]_vars

-----------------------------------------------------------------------------
(* The cache keys of the two adapters: requests of every operation, made   *)
(* one after the other against both adapters, with queries, limits and ids *)
(* chosen so that keys could run into each other.                          *)

MaxKeyCalls == 2

KeyQueries == { <<"a">>, <<"a", "1">> }

\* 0 (omitted) and 10 are the same effective limit for both adapters.
KeyLimits == {0, 5, 10, 15}

\* 100 and 200 are the same effective limit for Modrinth.
KeyModrinthLimits == {0, 10, 100, 200}

ModrinthIds == LatestVersions \ {NoName}

\* The requests the Spigot adapter keys: search (query, limit), resource by
\* id, version of a resource.
SpigotRequests ==
    [op : {"search"}, query : KeyQueries, limit : KeyLimits, id : {0}]
        \cup [op : {"resource", "version"}, query : {NoName}, limit : {0},
               id : ResourceIds]

SpigotKeyOf(d) ==
    IF d.op = "search" THEN SearchKey(d.query, d.limit)
    ELSE IF d.op = "resource" THEN ResourceKey(d.id)
    ELSE VersionKey(d.id)

\* The operation with its effective arguments.
SpigotEffective(d) ==
    [op |-> d.op, query |-> d.query, id |-> d.id,
     limit |-> IF d.op = "search" THEN MaxResults(d.limit) ELSE 0]

\* The requests the Modrinth adapter keys: search (query, limit), project
\* by id, version by id.
ModrinthRequests ==
    [op : {"search"}, query : KeyQueries, limit : KeyModrinthLimits,
     id : {NoName}]
        \cup [op : {"project", "version"}, query : {NoName}, limit : {0},
               id : ModrinthIds]

ModrinthKeyOf(d) ==
    IF d.op = "search" THEN ModrinthSearchKey(d.query, d.limit)
    ELSE IF d.op = "project" THEN ModrinthProjectKey(d.id)
    ELSE ModrinthVersionKey(d.id)

ModrinthEffective(d) ==
    [op |-> d.op, query |-> d.query, id |-> d.id,
     limit |-> IF d.op = "search"
               THEN EnsureValidLimit(MaxResults(d.limit)) ELSE 0]

\* No call of either adapter is running, its background lookups included.
AdaptersSettled ==
    /\ \A r \in ReqSlots : reqs[r].st \in {"idle", "returned"}
    /\ \A s \in MSlots :
          \/ mreqs[s].st = "idle"
          \/ mreqs[s].st = "returned" /\ mreqs[s].pend = {}

KeyCallsStarted ==
    Cardinality({r \in ReqSlots : reqs[r].st # "idle"})
        + Cardinality({s \in MSlots : mreqs[s].st # "idle"})

\* The caller makes its next call once the last one is through.
MayCall == AdaptersSettled /\ KeyCallsStarted < MaxKeyCalls

InitKeys ==
    /\ cache = [k \in {SpigotKeyOf(d) : d \in SpigotRequests} |-> NoEntry]
    /\ clock = 0
    /\ ticks = 0
    /\ calls = <<>>
    /\ reqs = [r \in ReqSlots |-> IdleReq]
    /\ returned = [slot |-> 0, value |-> NoData]
    /\ mcache = [k \in {ModrinthKeyOf(d) : d \in ModrinthRequests} |-> NoEntry]
    /\ mreqs = [s \in MSlots |-> IdleMReq]
    /\ mhits = [s \in MSlots |-> <<>>]
    /\ InfoIdle

NextKeys ==
    \/ /\ MayCall
       /\ \E r \in ReqSlots, q \in KeyQueries, l \in KeyLimits :
             SpigotAPIBegin(r, q, l)
    \/ /\ MayCall
       /\ \E r \in ReqSlots, id \in ResourceIds : IDtoResourceBegin(r, id)
    \/ \E r \in ReqSlots : SearchReturns(r, <<1>>)
    \/ \E r \in ReqSlots : GetResourceReturns(r)
    \/ \E r \in ReqSlots : TransportThrows(r)
    \/ \E r \in ReqSlots : VersionResolves(r, 1, VersionData("7"))
    \/ /\ MayCall
       /\ \E s \in MSlots, q \in KeyQueries, l \in KeyModrinthLimits :
             ModrinthAPIBegin(s, q, l, TRUE)
    \/ \E s \in MSlots : ModrinthSearchResolves(s, << <<"x">> >>)
    \/ \E s \in MSlots : ModrinthSearchRejects(s)
    \/ \E s \in MSlots :
          BackgroundVersionResolves(s, 1, VersionInfo(<<"1", ".", "0">>))
    \/ /\ MayCall
       /\ \E s \in MSlots, id \in ModrinthIds : ProjectBegin(s, id)
    \/ \E s \in MSlots, id \in ModrinthIds :
          /\ mreqs[s].key = ModrinthProjectKey(id)
          /\ ProjectResolves(s, ProjectData(id))
    \/ \E s \in MSlots : ProjectRejects(s)

SpecKeys == InitKeys /\ [][NextKeys]_vars

-----------------------------------------------------------------------------
(* Result Merger: part_001 lines 217-221, part_002 lines 128-132.          *)

\* A merger that spreads the record and forgets the tag.
Tagged_Untagged(result, tag) == result

\* `{ ...result, source: tag }`
Tagged(result, tag) == [result EXCEPT !.source = tag]

TagAll(results, tag) == [i \in 1 .. Len(results) |-> Tagged(results[i], tag)]

\* A merger that assigns `result.source = tag` on the adapter's own records.
AdapterRecordsAfterMerge_TaggedInPlace(results, tag) == TagAll(results, tag)

\* `{ ...result, source: "Spigot" }` spreads each record into a new object:
\* the records the adapter returned (and cached) are as they were.
AdapterRecordsAfterMerge(results, tag) == results

\* A merger that spreads the Modrinth records first.
Merge_ModrinthFirst(spigot, modrinth) ==
    TagAll(modrinth, "Modrinth") \o TagAll(spigot, "Spigot")

\* `[...spigotResults.map(...), ...modrinthResults.map(...)]`
Merge(spigot, modrinth) ==
    TagAll(spigot, "Spigot") \o TagAll(modrinth, "Modrinth")

-----------------------------------------------------------------------------
(* fuzzySearch: part_003 lines 29-116.                                     *)

\* `item.source === "Modrinth" ? item.title : item.name`
DisplayName(item) ==
    IF item.source = "Modrinth" THEN item.title ELSE item.name

\* Scores are in hundredths: 20 is 0.2.
FuzzyThreshold == 20

\* `name && name.toLowerCase() === query.toLowerCase()`
IsExactMatch(q, item) ==
    /\ Truthy(DisplayName(item))
    /\ ToLowerCase(DisplayName(item)) = ToLowerCase(q)

\* fuse.search(query): Fuse returns the items it matched, each with a score,
\* best (lowest) score first and, among equal scores, in index order.
\* `hits[i]` is what Fuse made of item i: [hit, score].
RECURSIVE FuseOrder(_, _)
FuseOrder(hits, left) ==
    IF left = {} THEN <<>>
    ELSE LET first == CHOOSE i \in left :
                 \A j \in left :
                     \/ hits[i].score < hits[j].score
                     \/ (hits[i].score = hits[j].score /\ i <= j)
         IN  <<first>> \o FuseOrder(hits, left \ {first})

FuseSearch(hits) ==
    FuseOrder(hits, {i \in 1 .. Len(hits) : hits[i].hit})

\* A filter that also keeps a score equal to the threshold.
ScoreIsGood_Inclusive(hit, threshold) == hit.hit /\ hit.score <= threshold

\* `result.score !== undefined && result.score < threshold`
ScoreIsGood(hit, threshold) == hit.hit /\ hit.score < threshold

\* The comparator handed to Array.prototype.sort.
CompareSource(a, b) ==
    IF a.source = "Spigot" /\ b.source = "Modrinth" THEN -1
    ELSE IF a.source = "Modrinth" /\ b.source = "Spigot" THEN 1
    ELSE 0

\* An unstable sort: an element goes in front of the elements already
\* placed that compare equal to it.
InsertSorted_Unstable(sorted, x) ==
    LET fits == {j \in 0 .. Len(sorted) :
                    \A k \in j + 1 .. Len(sorted) :
                        CompareSource(sorted[k], x) >= 0}
        at == CHOOSE j \in fits : \A k \in fits : j <= k
    IN  SubSeq(sorted, 1, at) \o <<x>> \o SubSeq(sorted, at + 1, Len(sorted))

\* Array.prototype.sort is stable: an element goes behind every element
\* already placed that does not compare greater than it.
InsertSorted(sorted, x) ==
    LET fits == {j \in 0 .. Len(sorted) :
                    \A k \in j + 1 .. Len(sorted) :
                        CompareSource(sorted[k], x) > 0}
        at == CHOOSE j \in fits : \A k \in fits : j <= k
    IN  SubSeq(sorted, 1, at) \o <<x>> \o SubSeq(sorted, at + 1, Len(sorted))

RECURSIVE SortBySource(_)
SortBySource(items) ==
    IF items = <<>> THEN <<>>
    ELSE InsertSorted(SortBySource(SubSeq(items, 1, Len(items) - 1)),
                      items[Len(items)])

\* `fuseResults.filter(score < threshold).map(result => result.item)`
FilteredResults(items, hits, threshold) ==
    LET order == FuseSearch(hits)
        good(i) == ScoreIsGood(hits[order[i]], threshold)
        filteredIdx == SelectSeq([i \in 1 .. Len(order) |-> i], good)
    IN  [i \in 1 .. Len(filteredIdx) |-> items[order[filteredIdx[i]]]]

\* `[...filteredResults].sort(...)`: the set fuzzySearch keeps.
SortedResults(items, hits, threshold) ==
    SortBySource(FilteredResults(items, hits, threshold))

\* The `results` field of what fuzzySearch returns (includeAllOnNoMatch is
\* left at its default, true).
FuzzyResults(hasGoodMatch, sortedResults, items) ==
    IF hasGoodMatch THEN sortedResults ELSE items

FuzzySearch(q, items, hits, threshold) ==
    LET exact == {i \in 1 .. Len(items) : IsExactMatch(q, items[i])}
        sortedResults == SortedResults(items, hits, threshold)
        hasGoodMatch == Len(sortedResults) > 0
    IN  IF exact # {}
        THEN [results |-> <<items[CHOOSE i \in exact : \A j \in exact : i <= j]>>,
              hasGoodMatch |-> TRUE]
        ELSE IF Len(items) = 1
        THEN [results |-> items, hasGoodMatch |-> TRUE]
        ELSE [results |-> FuzzyResults(hasGoodMatch, sortedResults, items),
              hasGoodMatch |-> hasGoodMatch]

-----------------------------------------------------------------------------
(* processSearchResults: part_001 lines 233-348.                           *)

\* displayPluginDetails(plugin, plugin.source)
DetailView(msg, item) == [kind |-> "details", msg |-> msg, records |-> <<item>>]

\* displaySearchResults(records), under the message printed before it
TableView(msg, records) == [kind |-> "table", msg |-> msg, records |-> records]

\* nameMap.get(lowerName) || 0, for the map built over all results
NameCount(results, lowerName) ==
    Cardinality({i \in 1 .. Len(results) :
        /\ Truthy(DisplayName(results[i]))
        /\ ToLowerCase(DisplayName(results[i])) = lowerName})

ExactMatches(q, results) ==
    LET test(r) == IsExactMatch(q, r)
    IN  SelectSeq(results, test)

\* `name && name.toLowerCase().includes(exactMatchName)`
ContainingMatches(q, results) ==
    LET test(r) == /\ Truthy(DisplayName(r))
                   /\ Includes(ToLowerCase(DisplayName(r)), ToLowerCase(q))
    IN  SelectSeq(results, test)

\* A duplicate test that already fires on the record's own name (`>= 1`).
HasDuplicates_CountsItself(bestMatch, results) ==
    IF Truthy(DisplayName(bestMatch))
    THEN NameCount(results, ToLowerCase(DisplayName(bestMatch))) >= 1
    ELSE FALSE

\* `bestMatchName ? (nameMap.get(bestMatchName.toLowerCase()) || 0) > 1 : false`
HasDuplicates(bestMatch, results) ==
    IF Truthy(DisplayName(bestMatch))
    THEN NameCount(results, ToLowerCase(DisplayName(bestMatch))) > 1
    ELSE FALSE

\* A processSearchResults without the single-result path.
IsSingleResult_Never(q, results, hits) == FALSE

\* `if (allResults.length === 1)`: the single-result path, taken once the
\* exact-match path was not.
IsSingleResult(q, results, hits) == Len(results) = 1

\* Lines 294-347 with the `return` after the best-match detail view left
\* out: the table follows the detail view.
FuzzyViews_FallsThrough(q, results, hits) ==
    LET filteredResults ==
            FuzzySearch(q, results, hits, FuzzyThreshold).results
    IN  IF Len(filteredResults) > 0
        THEN IF Len(filteredResults) = 1
                /\ ~HasDuplicates(filteredResults[1], results)
             THEN <<DetailView("Found a best match", filteredResults[1]),
                    TableView("Multiple matches found", filteredResults)>>
             ELSE <<TableView("Multiple matches found", filteredResults)>>
        ELSE <<TableView("No close matches found", results)>>

\* Lines 294-347: the views shown once fuzzySearch is consulted.
FuzzyViews(q, results, hits) ==
    LET filteredResults ==
            FuzzySearch(q, results, hits, FuzzyThreshold).results
    IN  IF Len(filteredResults) > 0
        THEN IF Len(filteredResults) = 1
                /\ ~HasDuplicates(filteredResults[1], results)
             THEN <<DetailView("Found a best match", filteredResults[1])>>
             ELSE <<TableView("Multiple matches found", filteredResults)>>
        ELSE <<TableView("No close matches found", results)>>

\* Lines 257-347 with the single-result path tried before the exact-match
\* path.
ResultViews_SingleFirst(q, results, hits) ==
    IF IsSingleResult(q, results, hits)
    THEN <<DetailView("", results[1])>>
    ELSE IF Len(ExactMatches(q, results)) >= 1
    THEN <<TableView("Found exact matches",
                     ContainingMatches(q, results))>>
    ELSE FuzzyViews(q, results, hits)

\* Lines 257-347: the views shown for a non-empty list.
ResultViews(q, results, hits) ==
    IF Len(ExactMatches(q, results)) >= 1
    THEN <<TableView("Found exact matches",
                     ContainingMatches(q, results))>>
    ELSE IF IsSingleResult(q, results, hits)
    THEN <<DetailView("", results[1])>>
    ELSE FuzzyViews(q, results, hits)

\* A processSearchResults that narrows the caller's list to the records the
\* fuzzy pass returned.
AllResultsAfter_Narrowed(q, results, hits) ==
    IF Len(results) >= 2 /\ Len(ExactMatches(q, results)) = 0
    THEN FuzzySearch(q, results, hits, FuzzyThreshold).results
    ELSE results

\* What processSearchResults leaves of its allResults argument: it and
\* fuzzySearch only build new arrays (filter, map, `[...filteredResults]`
\* before sort) and assign to no element, so the list is as it was.
AllResultsAfter(q, results, hits) == results

ProcessSearchResults(q, results, hits) ==
    IF Len(results) = 0
    THEN [spinner |-> "fail", error |-> FALSE, views |-> <<>>]
    ELSE [spinner |-> "succeed", error |-> FALSE,
          views |-> ResultViews(q, results, hits)]

\* Whether processSearchResults gets as far as fuse.search on these inputs.
ReachesFuse(q, results) ==
    /\ Len(results) >= 2
    /\ Len(ExactMatches(q, results)) = 0

-----------------------------------------------------------------------------
(* The info command (part_001) and the search command (part_002), with the *)
(* catalog adapters as their callers see them.                             *)

MaxRecords == 3

SrcAll == <<"a", "l", "l">>

SrcSpigot == <<"s", "p", "i", "g", "o", "t">>

SrcModrinth == <<"m", "o", "d", "r", "i", "n", "t", "h">>

\* `const validSources = ["all", "spigot", "modrinth"]`
ValidSources == {SrcAll, SrcSpigot, SrcModrinth}

\* The --source option as typed; "all" is its default.
SourceOptions ==
    { SrcAll, SrcSpigot, SrcModrinth,
      <<"S", "p", "i", "g", "o", "t">>, <<"b", "u", "k">> }

\* The [name] / [query] argument; NoName when it is left out.
QueryArgs == { <<"a">>, <<"A", "b">>, NoName }

\* The --id option; NoName when it is left out.
IdOptions == { NoName, <<"1">> }

\* Number(options.limit) for the --limit option: a number or NaN.
LimitOptions ==
    { [isNaN |-> FALSE, value |-> 10], [isNaN |-> FALSE, value |-> 0],
      [isNaN |-> TRUE, value |-> 0] }

\* Display names the catalogs deliver.
RecordNames == { <<"A">>, <<"a">>, <<"a", "b">>, NoName }

\* What an adapter's search resolves to: records with their name (Spigot)
\* or title (Modrinth); ids are the positions in the adapter's list. The
\* adapters set no source.
SpigotRecord(i, name) ==
    [id |-> i, name |-> name, title |-> NoName, source |-> "none"]

ModrinthRecord(i, title) ==
    [id |-> i, name |-> NoName, title |-> title, source |-> "none"]

SpigotLists(maxLen) ==
    UNION { { [i \in 1 .. n |-> SpigotRecord(i, names[i])] :
              names \in [1 .. n -> RecordNames] } : n \in 0 .. maxLen }

ModrinthLists(maxLen) ==
    UNION { { [i \in 1 .. n |-> ModrinthRecord(i, names[i])] :
              names \in [1 .. n -> RecordNames] } : n \in 0 .. maxLen }

\* What Fuse may make of one item: not matched, or matched with a score.
FuseOutcomes ==
    { [hit |-> FALSE, score |-> 0] }
        \cup { [hit |-> TRUE, score |-> sc] : sc \in {10, 19, 20} }

\* What fuse.search may make of the merged list, when it is consulted.
FuseChoices(q, merged) ==
    IF ReachesFuse(q, merged)
    THEN [1 .. Len(merged) -> FuseOutcomes]
    ELSE { <<>> }

\* validateInputParameters(query, options)
ValidateInputParameters(q, idOpt, srcOpt) ==
    IF ~Truthy(q) /\ ~Truthy(idOpt) THEN FALSE
    ELSE IF ToLowerCase(srcOpt) \notin ValidSources THEN FALSE
    ELSE IF Truthy(idOpt) /\ ToLowerCase(srcOpt) = SrcAll THEN FALSE
    ELSE TRUE

\* A search action that does not check the limit.
ValidateSearchOptions_NoLimitCheck(q, limit, srcOpt) ==
    IF ~Truthy(q) THEN FALSE
    ELSE IF ToLowerCase(srcOpt) \notin ValidSources THEN FALSE
    ELSE TRUE

\* The search action's three checks (part_002 lines 25-55).
ValidateSearchOptions(q, limit, srcOpt) ==
    IF ~Truthy(q) THEN FALSE
    ELSE IF limit.isNaN \/ limit.value <= 0 THEN FALSE
    ELSE IF ToLowerCase(srcOpt) \notin ValidSources THEN FALSE
    ELSE TRUE

ErrorOutput == [spinner |-> "none", error |-> TRUE, views |-> <<>>]

\* `if (source === "all" || source === "spigot")`: the adapter is called and
\* its promise pushed.
StartTask(src, mine) ==
    IF src = SrcAll \/ src = mine THEN "pending" ELSE "none"

\* shulkers info [name] --id <id> --source <source>
InfoCommand(q, idOpt, srcOpt) ==
    /\ pc = "idle"
    /\ cmd' = "info"
    /\ query' = q
    /\ byId' = idOpt
    /\ source' = srcOpt
    /\ IF ~ValidateInputParameters(q, idOpt, srcOpt)
       THEN /\ pc' = "done"
            /\ out' = ErrorOutput
            /\ UNCHANGED <<spigotTask, modrinthTask>>
       ELSE IF Truthy(idOpt)
       THEN /\ spigotTask' = IF srcOpt = SrcSpigot THEN "pending" ELSE "none"
            /\ modrinthTask' =
                 IF srcOpt # SrcSpigot /\ srcOpt = SrcModrinth
                 THEN "pending" ELSE "none"
            /\ pc' = IF srcOpt = SrcSpigot \/ srcOpt = SrcModrinth
                     THEN "byid" ELSE "done"
            /\ out' = out
       ELSE /\ spigotTask' = StartTask(srcOpt, SrcSpigot)
            /\ modrinthTask' = StartTask(srcOpt, SrcModrinth)
            /\ pc' = "searching"
            /\ out' = out
    /\ UNCHANGED <<spigotResults, modrinthResults, settled, allResults,
                   fuseHits, adapterVars>>

\* shulkers search [query] --limit <n> --source <source>
SearchCommand(q, limit, srcOpt) ==
    /\ pc = "idle"
    /\ cmd' = "search"
    /\ query' = q
    /\ byId' = byId
    /\ IF ~ValidateSearchOptions(q, limit, srcOpt)
       THEN /\ pc' = "done"
            /\ out' = ErrorOutput
            /\ source' = srcOpt
            /\ UNCHANGED <<spigotTask, modrinthTask>>
       ELSE /\ source' = ToLowerCase(srcOpt)
            /\ spigotTask' = StartTask(ToLowerCase(srcOpt), SrcSpigot)
            /\ modrinthTask' = StartTask(ToLowerCase(srcOpt), SrcModrinth)
            /\ pc' = "searching"
            /\ out' = out
    /\ UNCHANGED <<spigotResults, modrinthResults, settled, allResults,
                   fuseHits, adapterVars>>

\* The Spigot search settled: `if (results) spigotResults = results`; a
\* null result and a thrown error leave spigotResults as it was.
SpigotSettles ==
    /\ pc = "searching"
    /\ spigotTask = "pending"
    /\ \/ \E results \in SpigotLists(MaxRecords - Len(modrinthResults)) :
             /\ spigotTask' = "ok"
             /\ spigotResults' = results
       \/ \E kind \in {"null", "threw"} :
             /\ spigotTask' = kind
             /\ spigotResults' = spigotResults
    /\ settled' = Append(settled, "Spigot")
    /\ UNCHANGED <<cmd, pc, query, source, byId, modrinthTask,
                   modrinthResults, allResults, fuseHits, out, adapterVars>>

\* The Modrinth search settled: `if (results) modrinthResults = results`.
ModrinthSettles ==
    /\ pc = "searching"
    /\ modrinthTask = "pending"
    /\ \/ \E results \in ModrinthLists(MaxRecords - Len(spigotResults)) :
             /\ modrinthTask' = "ok"
             /\ modrinthResults' = results
       \/ \E kind \in {"null", "threw"} :
             /\ modrinthTask' = kind
             /\ modrinthResults' = modrinthResults
    /\ settled' = Append(settled, "Modrinth")
    /\ UNCHANGED <<cmd, pc, query, source, byId, spigotTask,
                   spigotResults, allResults, fuseHits, out, adapterVars>>

\* A join that awaits the Spigot promise only.
AllSettled_SpigotOnly == spigotTask # "pending"

\* `await Promise.all(searchPromises)` resumes once no pushed promise is
\* pending.
AllSettled == spigotTask # "pending" /\ modrinthTask # "pending"

\* getPluginByName after the join: merge, then processSearchResults.
JoinInfo ==
    /\ pc = "searching"
    /\ cmd = "info"
    /\ AllSettled
    /\ LET merged == Merge(spigotResults, modrinthResults)
       IN  \E hits \in FuseChoices(query, merged) :
              /\ allResults' = AllResultsAfter(query, merged, hits)
              /\ fuseHits' = hits
              /\ out' = ProcessSearchResults(query, merged, hits)
    /\ spigotResults' = AdapterRecordsAfterMerge(spigotResults, "Spigot")
    /\ modrinthResults' = AdapterRecordsAfterMerge(modrinthResults, "Modrinth")
    /\ pc' = "done"
    /\ UNCHANGED <<cmd, query, source, byId, spigotTask, modrinthTask,
                   settled, adapterVars>>

\* searchPlugins after the join: merge, then one table of everything.
JoinSearch ==
    /\ pc = "searching"
    /\ cmd = "search"
    /\ AllSettled
    /\ LET merged == Merge(spigotResults, modrinthResults)
       IN  /\ allResults' = merged
           /\ out' = IF Len(merged) = 0
                     THEN [spinner |-> "fail", error |-> FALSE, views |-> <<>>]
                     ELSE [spinner |-> "succeed", error |-> FALSE,
                           views |-> <<TableView("Found plugins", merged)>>]
    /\ spigotResults' = AdapterRecordsAfterMerge(spigotResults, "Spigot")
    /\ modrinthResults' = AdapterRecordsAfterMerge(modrinthResults, "Modrinth")
    /\ pc' = "done"
    /\ UNCHANGED <<cmd, query, source, byId, spigotTask, modrinthTask,
                   settled, fuseHits, adapterVars>>

\* getPluginById: the by-id adapter call settled.
ByIdSettles(kind) ==
    /\ pc = "byid"
    /\ \/ /\ spigotTask = "pending"
          /\ spigotTask' = kind
          /\ modrinthTask' = modrinthTask
          /\ settled' = Append(settled, "Spigot")
          /\ out' = IF kind = "ok"
                    THEN [spinner |-> "succeed", error |-> FALSE,
                          views |-> <<DetailView("",
                              Tagged(SpigotRecord(1, <<"a">>), "Spigot"))>>]
                    ELSE [spinner |-> "fail", error |-> FALSE, views |-> <<>>]
       \/ /\ modrinthTask = "pending"
          /\ modrinthTask' = kind
          /\ spigotTask' = spigotTask
          /\ settled' = Append(settled, "Modrinth")
          /\ out' = IF kind = "ok"
                    THEN [spinner |-> "succeed", error |-> FALSE,
                          views |-> <<DetailView("",
                              Tagged(ModrinthRecord(1, <<"a">>), "Modrinth"))>>]
                    ELSE [spinner |-> "fail", error |-> FALSE, views |-> <<>>]
    /\ pc' = "done"
    /\ UNCHANGED <<cmd, query, source, byId, spigotResults, modrinthResults,
                   allResults, fuseHits, adapterVars>>

TaskOutcomes == {"ok", "null", "threw"}

InitInfo ==
    /\ cache = <<>>
    /\ clock = 0
    /\ ticks = 0
    /\ calls = <<>>
    /\ reqs = <<>>
    /\ returned = [slot |-> 0, value |-> NoData]
    /\ ModrinthIdle
    /\ InfoIdle

NextInfo ==
    \/ \E q \in QueryArgs, i \in IdOptions, so \in SourceOptions :
          InfoCommand(q, i, so)
    \/ \E q \in QueryArgs, l \in LimitOptions, so \in SourceOptions :
          SearchCommand(q, l, so)
    \/ SpigotSettles
    \/ ModrinthSettles
    \/ JoinInfo
    \/ JoinSearch
    \/ \E k \in TaskOutcomes : ByIdSettles(k)

SpecInfo == InitInfo /\ [][NextInfo]_vars

-----------------------------------------------------------------------------
(* processSearchResults as a function of its arguments: getPluginByName    *)
(* has merged some lists, and processSearchResults is called on the merged *)
(* list, and then once more on the same list.                              *)

\* getPluginByName after the merge (part_001 line 221), for any query and
\* any lists the adapters may have delivered.
InitResolve ==
    /\ cache = <<>>
    /\ clock = 0
    /\ ticks = 0
    /\ calls = <<>>
    /\ reqs = <<>>
    /\ returned = [slot |-> 0, value |-> NoData]
    /\ ModrinthIdle
    /\ cmd = "info"
    /\ pc = "merged"
    /\ query \in QueryArgs \ {NoName}
    /\ source = SrcAll
    /\ byId = NoName
    /\ spigotTask = "ok"
    /\ modrinthTask = "ok"
    /\ spigotResults \in SpigotLists(MaxRecords)
    /\ modrinthResults \in ModrinthLists(MaxRecords - Len(spigotResults))
    /\ settled = <<"Spigot", "Modrinth">>
    /\ allResults = Merge(spigotResults, modrinthResults)
    /\ fuseHits = <<>>
    /\ out = NoOutput

\* fuse.search is a function of the query and the list: asked again about
\* the list it was asked about before, it answers as before.
FuseChoicesAgain(q, results) ==
    IF results = Merge(spigotResults, modrinthResults)
    THEN {fuseHits}
    ELSE FuseChoices(q, results)

\* processSearchResults(query, allResults, spinner), first call.
ProcessFirst ==
    /\ pc = "merged"
    /\ \E hits \in FuseChoices(query, allResults) :
          /\ fuseHits' = hits
          /\ out' = ProcessSearchResults(query, allResults, hits)
          /\ allResults' = AllResultsAfter(query, allResults, hits)
    /\ pc' = "once"
    /\ UNCHANGED <<cmd, query, source, byId, spigotTask, modrinthTask,
                   spigotResults, modrinthResults, settled, adapterVars>>

\* processSearchResults called again with the same query and the same
\* list object.
ProcessAgain ==
    /\ pc = "once"
    /\ \E hits \in FuseChoicesAgain(query, allResults) :
          /\ fuseHits' = hits
          /\ out' = ProcessSearchResults(query, allResults, hits)
          /\ allResults' = AllResultsAfter(query, allResults, hits)
    /\ pc' = "twice"
    /\ UNCHANGED <<cmd, query, source, byId, spigotTask, modrinthTask,
                   spigotResults, modrinthResults, settled, adapterVars>>

NextResolve == ProcessFirst \/ ProcessAgain

SpecResolve == InitResolve /\ [][NextResolve]_vars

-----------------------------------------------------------------------------
(* Properties of the resolver, the merger and the join.                    *)

\* getPluginByName has returned: the lists were merged and
\* processSearchResults has shown what it shows.
Resolved ==
    /\ pc = "done"
    /\ cmd = "info"
    /\ ~out.error
    /\ ~Truthy(byId)

\* searchPlugins or getPluginByName has merged the adapters' lists.
Merged ==
    /\ pc = "done"
    /\ cmd \in {"info", "search"}
    /\ ~out.error
    /\ ~Truthy(byId)

\* C4: when at least one record's display name equals the query
\* case-insensitively, processSearchResults shows one table, under the
\* exact-match message, of every record whose display name contains the
\* query as a case-insensitive substring, in merged-list order; this holds
\* for every list length, a one-element list included, and every exact
\* match is in the table.
C4_ExactMatchesGiveContainingSet ==
    (Resolved /\ \E i \in 1 .. Len(allResults) :
                    IsExactMatch(query, allResults[i]))
    => LET contains(r) ==
               /\ Truthy(DisplayName(r))
               /\ Includes(ToLowerCase(DisplayName(r)), ToLowerCase(query))
       IN  /\ Len(out.views) = 1
           /\ out.views[1].kind = "table"
           /\ out.views[1].msg = "Found exact matches"
           /\ out.views[1].records = SelectSeq(allResults, contains)
           /\ \A i \in 1 .. Len(allResults) :
                 IsExactMatch(query, allResults[i])
                 => \E j \in 1 .. Len(out.views[1].records) :
                        out.views[1].records[j] = allResults[i]

\* The merged list is a single record that matches the query exactly, and
\* a one-record table was shown.
C4_Witness ==
    /\ Resolved
    /\ Len(allResults) = 1
    /\ IsExactMatch(query, allResults[1])
    /\ out.views = <<TableView("Found exact matches", allResults)>>

\* C5 as stated: a one-element merged list always resolves to the detail
\* view of that record, whether or not its name equals the query
\* case-insensitively.
C5_OneElementAlwaysSingleMatch ==
    (Resolved /\ Len(allResults) = 1)
    => out.views = <<DetailView("", allResults[1])>>

\* C5, amended: a one-element merged list whose record is not a
\* case-insensitive exact match of the query (its display name differs or
\* is missing) resolves to the detail view of that record, with no score
\* check.
C5_OneElementNotExactIsSingleMatch ==
    (Resolved /\ Len(allResults) = 1 /\ ~IsExactMatch(query, allResults[1]))
    => out.views = <<DetailView("", allResults[1])>>

\* The merged list is a single record whose name does not even contain the
\* query, and its details were shown.
C5_Witness ==
    /\ Resolved
    /\ Len(allResults) = 1
    /\ Truthy(DisplayName(allResults[1]))
    /\ ~Includes(ToLowerCase(DisplayName(allResults[1])), ToLowerCase(query))
    /\ Len(out.views) = 1
    /\ out.views[1].kind = "details"

\* C6: with two or more records, no exact match and no record scored below
\* the threshold by the fuzzy pass, processSearchResults shows the whole
\* merged list, in merge order, as the "no close matches" outcome.
C6_NothingKeptGivesNoGoodMatch ==
    (/\ Resolved
     /\ ReachesFuse(query, allResults)
     /\ \A i \in 1 .. Len(fuseHits) :
           ~ScoreIsGood(fuseHits[i], FuzzyThreshold))
    => out.views = <<TableView("No close matches found", allResults)>>

\* C7 as stated: with two or more records and no exact match, a fuzzy-kept
\* set of exactly one record whose lower-cased display name occurs exactly
\* once in the full merged list gives the detail view of that record; any
\* other non-empty kept set gives the table of the kept set under the
\* multiple-matches message.
C7_FuzzyDecision ==
    LET kept == SortedResults(allResults, fuseHits, FuzzyThreshold)
    IN  (Resolved /\ ReachesFuse(query, allResults) /\ Len(kept) > 0)
        => IF /\ Len(kept) = 1
              /\ NameCount(allResults, ToLowerCase(DisplayName(kept[1]))) = 1
           THEN out.views = <<DetailView("Found a best match", kept[1])>>
           ELSE out.views = <<TableView("Multiple matches found", kept)>>

\* C7, amended: with two or more records and no exact match, a fuzzy-kept
\* set of exactly one record whose lower-cased display name does not occur
\* more than once in the full merged list (a kept record without a display
\* name counts as not duplicated) gives the detail view of that record; any
\* other non-empty kept set gives the table of the kept set under the
\* multiple-matches message.
C7_FuzzyDecisionNoDuplicate ==
    LET kept == SortedResults(allResults, fuseHits, FuzzyThreshold)
    IN  (Resolved /\ ReachesFuse(query, allResults) /\ Len(kept) > 0)
        => IF /\ Len(kept) = 1
              /\ NameCount(allResults, ToLowerCase(DisplayName(kept[1]))) <= 1
           THEN out.views = <<DetailView("Found a best match", kept[1])>>
           ELSE out.views = <<TableView("Multiple matches found", kept)>>

\* The fuzzy pass kept one record of two that share a name: the kept
\* record alone was shown as a table.
C7_Witness ==
    LET kept == SortedResults(allResults, fuseHits, FuzzyThreshold)
    IN  /\ Resolved
        /\ ReachesFuse(query, allResults)
        /\ Len(kept) = 1
        /\ NameCount(allResults, ToLowerCase(DisplayName(kept[1]))) = 2
        /\ out.views = <<TableView("Multiple matches found", kept)>>

\* C8: processSearchResults ends in exactly one outcome: the
\* no-plugins-found failure if and only if the merged list is empty, and
\* for a non-empty list exactly one view, a detail view or a table.
C8_ExactlyOneOutcome ==
    Resolved
    => /\ (out.spinner = "fail") <=> (allResults = <<>>)
       /\ allResults = <<>> => out.views = <<>>
       /\ allResults # <<>>
            => /\ out.spinner = "succeed"
               /\ Len(out.views) = 1
               /\ out.views[1].kind \in {"details", "table"}

\* A list of several records went through the fuzzy pass and ended in one
\* detail view.
C8_Witness ==
    /\ Resolved
    /\ Len(allResults) >= 2
    /\ Len(out.views) = 1
    /\ out.views[1].kind = "details"
    /\ out.spinner = "succeed"

\* C9: the merged list has length m+n; its first m entries are the Spigot
\* records in the order received, each tagged Spigot; its last n entries
\* are the Modrinth records in the order received, each tagged Modrinth; a
\* source that returned null or failed contributes no entry.
C9_MergeOrder ==
    Merged
    => LET m == Len(spigotResults)
           n == Len(modrinthResults)
       IN  /\ Len(allResults) = m + n
           /\ \A i \in 1 .. m :
                 allResults[i] = [spigotResults[i] EXCEPT !.source = "Spigot"]
           /\ \A j \in 1 .. n :
                 allResults[m + j] =
                     [modrinthResults[j] EXCEPT !.source = "Modrinth"]
           /\ spigotTask # "ok"
                => \A i \in 1 .. Len(allResults) :
                      allResults[i].source # "Spigot"
           /\ modrinthTask # "ok"
                => \A i \in 1 .. Len(allResults) :
                      allResults[i].source # "Modrinth"

\* Two differently named Spigot records and a Modrinth record were merged.
C9_Witness ==
    /\ Merged
    /\ Len(spigotResults) = 2
    /\ spigotResults[1].name # spigotResults[2].name
    /\ Len(modrinthResults) = 1
    /\ Len(allResults) = 3

\* C10: the merge happens only once neither adapter call is pending, in
\* every interleaving of their completions, and the merged list is all
\* Spigot records then all Modrinth records whichever settled first.
C10_JoinedBeforeMerge ==
    [][ (pc = "searching" /\ pc' = "done")
        => /\ spigotTask # "pending"
           /\ modrinthTask # "pending"
           /\ allResults' = TagAll(spigotResults, "Spigot")
                                \o TagAll(modrinthResults, "Modrinth")
      ]_vars

\* Both adapter calls were started together, Modrinth settled first, and
\* the merged list still begins with the Spigot records.
C10_Witness ==
    /\ pc = "done"
    /\ settled = <<"Modrinth", "Spigot">>
    /\ spigotTask = "ok"
    /\ modrinthTask = "ok"
    /\ Len(spigotResults) >= 1
    /\ Len(modrinthResults) >= 1
    /\ allResults[1].source = "Spigot"
    /\ allResults[Len(allResults)].source = "Modrinth"

\* The position in the merged list of a record shown.
IndexOf(record) ==
    CHOOSE i \in 1 .. Len(allResults) : allResults[i] = record

\* Fuse hands over record i before record j: better score first, and the
\* list's order among equal scores.
EntersBefore(i, j) ==
    \/ fuseHits[i].score < fuseHits[j].score
    \/ (fuseHits[i].score = fuseHits[j].score /\ i < j)

\* C15: when the fuzzy pass keeps something, what it keeps is exactly the
\* records scored strictly below 0.2, each once, with every Spigot record
\* before every Modrinth record and, within a source, in the order in
\* which the records entered the sort (Fuse's order, not re-ordered).
C15_FuzzyKeptSetAndOrder ==
    LET good == {i \in 1 .. Len(fuseHits) :
                    fuseHits[i].hit /\ fuseHits[i].score < 20}
    IN  (Resolved /\ ReachesFuse(query, allResults) /\ good # {})
        => LET shown == out.views[1].records
           IN  /\ Len(shown) = Cardinality(good)
               /\ {shown[a] : a \in 1 .. Len(shown)}
                     = {allResults[i] : i \in good}
               /\ \A a, b \in 1 .. Len(shown) :
                     a < b
                     => /\ ~(shown[a].source = "Modrinth"
                               /\ shown[b].source = "Spigot")
                        /\ shown[a].source = shown[b].source
                             => EntersBefore(IndexOf(shown[a]),
                                             IndexOf(shown[b]))

\* All three records were kept (one of them scored 0.19, none 0.2 or
\* more); the second Spigot record scored better than the first and is
\* shown first, and the Modrinth record, which scored better than the
\* first Spigot record, is shown last.
C15_Witness ==
    /\ Resolved
    /\ ReachesFuse(query, allResults)
    /\ Len(out.views) = 1
    /\ Len(out.views[1].records) = 3
    /\ out.views[1].records[1] = allResults[2]
    /\ out.views[1].records[2] = allResults[1]
    /\ out.views[1].records[3] = allResults[3]
    /\ allResults[2].source = "Spigot"
    /\ allResults[3].source = "Modrinth"
    /\ fuseHits[3].score < fuseHits[1].score

\* C16: when one adapter call throws or returns null and the other
\* succeeds, the merged list is exactly the records of the succeeding
\* source, in order, each tagged with that source, with nothing from the
\* failing one; and the command runs to its end (spinner stopped, no
\* error printed): the failure does not escape the lookup.
C16_TransportFailureIsolated ==
    LET failed == {"null", "threw"}
        ofSource(results, tag) ==
            [i \in 1 .. Len(results) |-> [results[i] EXCEPT !.source = tag]]
    IN  /\ (Merged /\ spigotTask = "ok" /\ modrinthTask \in failed)
           => /\ allResults = ofSource(spigotResults, "Spigot")
              /\ out.spinner \in {"succeed", "fail"}
        /\ (Merged /\ modrinthTask = "ok" /\ spigotTask \in failed)
           => /\ allResults = ofSource(modrinthResults, "Modrinth")
              /\ out.spinner \in {"succeed", "fail"}

\* The Modrinth call threw, the Spigot call returned three records: the
\* name lookup merged exactly those three, tagged Spigot, and went on to
\* show them.
C16_Witness ==
    /\ Resolved
    /\ modrinthTask = "threw"
    /\ spigotTask = "ok"
    /\ Len(spigotResults) = 3
    /\ Len(allResults) = 3
    /\ \A i \in 1 .. 3 : allResults[i].source = "Spigot"
    /\ out.spinner = "succeed"
    /\ Len(out.views) = 1

\* The records of Spigot request r after the step: still in the request
\* while lookups are pending, else in the list handed to the caller.
RecordsAfter(r) ==
    IF reqs'[r].st = "versions" THEN reqs'[r].results
    ELSE returned'.value.items

\* The step changes the records of Spigot request r at most at position i.
OnlyRecordChanged(r, i) ==
    /\ Len(RecordsAfter(r)) = Len(reqs[r].results)
    /\ \A j \in 1 .. Len(reqs[r].results) :
          j # i => RecordsAfter(r)[j] = reqs[r].results[j]
    /\ reqs'[r].st # "versions"
          => /\ reqs'[r].st = "returned"
             /\ returned'.slot = r
             /\ returned'.value.kind \in {"list", "resource"}

\* The step changes the Modrinth hit objects at most at hit i of the
\* response that request s works on.
OnlyHitChanged(s, i) ==
    LET owner == mreqs[s].owner
    IN  /\ Len(mhits'[owner]) = Len(mhits[owner])
        /\ \A j \in 1 .. Len(mhits[owner]) :
              j # i => mhits'[owner][j] = mhits[owner][j]
        /\ \A o \in MSlots : o # owner => mhits'[o] = mhits[o]

\* What the adapters do when a per-record lookup succeeds with a version:
\* that record carries the fetched version and no other record changes.
LookupSuccessApplied ==
    /\ \A r \in ReqSlots, i \in 1 .. 2, v \in VersionResults :
          (v.kind = "version" /\ VersionResolves(r, i, v))
          => /\ OnlyRecordChanged(r, i)
             /\ RecordsAfter(r)[i].id = reqs[r].results[i].id
             /\ RecordsAfter(r)[i].version_raw
                   = IF v.name = "7" THEN "7.0" ELSE v.name
    /\ \A s \in MSlots, i \in 1 .. 2, info \in VersionInfos :
          (info.kind = "version" /\ BackgroundVersionResolves(s, i, info))
          => /\ OnlyHitChanged(s, i)
             /\ mhits'[mreqs[s].owner][i].version_raw = info.items

\* What SpigotAPI does when a per-record lookup fails: that record gets
\* "Unknown", no other record changes, and the batch is still returned.
SpigotLookupFailureApplied ==
    \A r \in ReqSlots, i \in 1 .. 2 :
        VersionRejects(r, i)
        => /\ OnlyRecordChanged(r, i)
           /\ RecordsAfter(r)[i] =
                 [reqs[r].results[i] EXCEPT !.version_raw = "Unknown"]

\* C17 as stated: whichever per-record version lookups fail, every record
\* of the batch is still returned; a record whose lookup failed has its
\* version field set to the fallback ("Unknown" for Spigot, the record's
\* latest_version for Modrinth), a record whose lookup succeeded carries
\* the fetched version, and no lookup's failure changes another record.
C17_LookupFailureFallback ==
    [][ /\ LookupSuccessApplied
        /\ SpigotLookupFailureApplied
        /\ \A s \in MSlots, i \in 1 .. 2 :
              BackgroundVersionRejects(s, i)
              => /\ OnlyHitChanged(s, i)
                 /\ mhits'[mreqs[s].owner][i].version_raw
                       = mhits[mreqs[s].owner][i].latest_version
      ]_vars

\* C17, amended: as stated for Spigot and for successful lookups; a
\* Modrinth record whose lookup failed keeps the version field it has,
\* which is its latest_version unless a lookup of an overlapping call has
\* already set it to a fetched version (the fallback is written only into
\* an empty field).
C17_LookupFailureIsolated ==
    [][ /\ LookupSuccessApplied
        /\ SpigotLookupFailureApplied
        /\ \A s \in MSlots, i \in 1 .. 2 :
              BackgroundVersionRejects(s, i)
              => LET hit == mhits[mreqs[s].owner][i]
                 IN  /\ OnlyHitChanged(s, i)
                     /\ mhits'[mreqs[s].owner][i] = hit
                     /\ \/ hit.version_raw = hit.latest_version
                        \/ \E info \in VersionInfos :
                              /\ info.kind = "version"
                              /\ hit.version_raw = info.items
      ]_vars

\* A Modrinth search for two hits has all its lookups behind it: the
\* first hit carries the fetched version, the second one, whose lookup
\* failed (nothing was cached for it), its latest_version.
C17_Witness ==
    \E s \in MSlots :
        /\ mreqs[s].st = "returned"
        /\ mreqs[s].fetchVersions
        /\ mreqs[s].owner = s
        /\ mreqs[s].pend = {}
        /\ Len(mhits[s]) = 2
        /\ mhits[s][1].version_raw = <<"1", ".", "0">>
        /\ mhits[s][2].version_raw = <<"y">>
        /\ ~mcache[ModrinthVersionKey(<<"y">>)].present

\* The lookups of a returning ModrinthAPI call that the version cache cannot
\* answer at the moment of the return.
UnansweredLookups(s) ==
    {i \in 1 .. Len(mhits'[mreqs'[s].owner]) :
        /\ Truthy(mhits'[mreqs'[s].owner][i].latest_version)
        /\ ~IsValid(mcache[ModrinthVersionKey(
                        mhits'[mreqs'[s].owner][i].latest_version)], clock)}

MReturns(s) == mreqs[s].st # "returned" /\ mreqs'[s].st = "returned"

\* C18 (as claimed): when SpigotAPI, or ModrinthAPI called with
\* fetchVersions=true, has returned, every version lookup the call started
\* has completed or failed, and the records handed to the caller are the
\* records as they stay (no lookup of the call modifies them afterwards).
C18_LookupsJoinedBeforeReturn ==
    /\ \A r \in ReqSlots : reqs[r].st = "returned" => reqs[r].pend = {}
    /\ \A s \in MSlots :
          (mreqs[s].st = "returned" /\ mreqs[s].fetchVersions)
          => /\ mreqs[s].pend = {}
             /\ (\A t \in MSlots \ {s} : mreqs[t].st = "idle")
                => mreqs[s].handed = mhits[mreqs[s].owner]

\* C18 (amended): SpigotAPI joins its version lookups: a lookup settles only
\* while the call is still running, a returned call has none pending, and
\* the value handed to the caller is set at the return and by nothing else.
\* ModrinthAPI does not join: it returns the records
\* at once, with only the lookups the version cache answered applied; with
\* fetchVersions=true every other lookup of a record that has a
\* latest_version is still pending at the return and later modifies, in
\* place, only its own record of the list already handed over; with
\* fetchVersions=false no lookup is started.
C18_SpigotJoinsModrinthDoesNot ==
    [][ /\ \A r \in ReqSlots :
              /\ reqs'[r].st = "returned" => reqs'[r].pend = {}
              /\ \A i \in 1 .. 2 :
                    (VersionRejects(r, i)
                       \/ \E v \in VersionResults : VersionResolves(r, i, v))
                    => reqs[r].st = "versions" /\ i \in reqs[r].pend
        /\ returned' # returned
           => \E r \in ReqSlots :
                 /\ reqs[r].st # "returned"
                 /\ reqs'[r].st = "returned"
                 /\ returned'.slot = r
        /\ \A s \in MSlots :
              /\ (MReturns(s) /\ mreqs'[s].owner # 0)
                 => /\ mreqs'[s].handed = mhits'[mreqs'[s].owner]
                    /\ mreqs'[s].pend =
                          IF mreqs'[s].fetchVersions
                          THEN UnansweredLookups(s)
                          ELSE {}
              /\ mreqs[s].st = "returned"
                 => /\ mreqs'[s].handed = mreqs[s].handed
                    /\ mreqs'[s].pend \subseteq mreqs[s].pend
              /\ \A i \in 1 .. 2 :
                    (BackgroundVersionRejects(s, i)
                       \/ \E info \in VersionInfos :
                             BackgroundVersionResolves(s, i, info))
                    => /\ mreqs[s].st = "returned"
                       /\ mreqs[s].fetchVersions
                       /\ i \in mreqs[s].pend
                       /\ OnlyHitChanged(s, i)
      ]_vars

\* C18 witness: a single ModrinthAPI(query, limit, true) call has returned,
\* its background lookups have all settled since, and the records now differ
\* from the records it handed to its caller.
C18_Witness ==
    \E s \in MSlots :
        /\ mreqs[s].st = "returned"
        /\ mreqs[s].fetchVersions
        /\ mreqs[s].owner = s
        /\ \A t \in MSlots \ {s} : mreqs[t].st = "idle"
        /\ mreqs[s].pend = {}
        /\ Len(mreqs[s].handed) = 2
        /\ mreqs[s].handed # mhits[s]

\* The command printed an error and returned: no adapter was called (no
\* task was started) and nothing of the adapters' state, their caches
\* included, has changed.
AbortsBeforeAnyCall ==
    /\ pc' = "done"
    /\ out' = ErrorOutput
    /\ spigotTask' = "none"
    /\ modrinthTask' = "none"
    /\ settled' = settled
    /\ UNCHANGED adapterVars

\* C19: an input validation failure aborts before any catalog call. In the
\* search command a missing query, a limit that is NaN or not positive, or
\* a source that is (in lower case) none of all, spigot, modrinth; in the
\* info command a missing name together with a missing --id, such a source,
\* or --id together with source all: each prints an error and returns
\* without calling an adapter and without touching the cache; a command that
\* has aborted calls no adapter later either.
C19_ValidationAbortsBeforeCalls ==
    [][ /\ \A q \in QueryArgs, l \in LimitOptions, so \in SourceOptions :
              (/\ SearchCommand(q, l, so)
               /\ \/ ~Truthy(q)
                  \/ l.isNaN
                  \/ l.value <= 0
                  \/ ToLowerCase(so) \notin ValidSources)
              => AbortsBeforeAnyCall
        /\ \A q \in QueryArgs, i \in IdOptions, so \in SourceOptions :
              (/\ InfoCommand(q, i, so)
               /\ \/ ~Truthy(q) /\ ~Truthy(i)
                  \/ ToLowerCase(so) \notin ValidSources
                  \/ Truthy(i) /\ ToLowerCase(so) = SrcAll)
              => AbortsBeforeAnyCall
        /\ out.error
           => /\ spigotTask' = "none"
              /\ modrinthTask' = "none"
              /\ UNCHANGED adapterVars
      ]_vars

\* C19 witness: a search with a query and a valid source was refused for
\* its limit, and no adapter call was started.
C19_Witness ==
    /\ cmd = "search"
    /\ pc = "done"
    /\ out = ErrorOutput
    /\ Truthy(query)
    /\ ToLowerCase(source) \in ValidSources
    /\ spigotTask = "none"
    /\ modrinthTask = "none"
    /\ settled = <<>>

\* The positions of the merged list whose record has no display name.
Nameless == {i \in 1 .. Len(allResults) : ~Truthy(DisplayName(allResults[i]))}

InSeq(record, records) == \E a \in 1 .. Len(records) : records[a] = record

\* processSearchResults returned normally: the spinner succeeded and one
\* view was shown.
ReturnedNormally == out.spinner = "succeed" /\ Len(out.views) = 1

\* C20 (as claimed): a record without a display name is non-matching in
\* both passes: it is no exact match and no containment match, it is never
\* in the fuzzy-kept set, and resolving a list that contains it never
\* throws.
C20_NamelessNeverMatches ==
    (Resolved /\ Nameless # {})
    => /\ ReturnedNormally
       /\ \A i \in Nameless :
             /\ ~InSeq(allResults[i], ExactMatches(query, allResults))
             /\ ~InSeq(allResults[i], ContainingMatches(query, allResults))
             /\ ReachesFuse(query, allResults)
                => ~InSeq(allResults[i],
                          SortedResults(allResults, fuseHits, FuzzyThreshold))

\* C20 (amended): a record without a display name is never an exact match
\* or a containment match and is never in the exact-match table; the fuzzy
\* pass does not look at the display name alone, so such a record is in the
\* fuzzy-kept set exactly when Fuse scores it below 0.2 (through its other
\* keys), and is then shown like any kept record; resolving a list that
\* contains such a record never throws.
C20_NamelessOnlyKeptByFuse ==
    (Resolved /\ Nameless # {})
    => /\ ReturnedNormally
       /\ \A i \in Nameless :
             /\ ~InSeq(allResults[i], ExactMatches(query, allResults))
             /\ ~InSeq(allResults[i], ContainingMatches(query, allResults))
             /\ Len(ExactMatches(query, allResults)) >= 1
                => ~InSeq(allResults[i], out.views[1].records)
             /\ ReachesFuse(query, allResults)
                => LET kept == SortedResults(allResults, fuseHits,
                                             FuzzyThreshold)
                   IN  /\ InSeq(allResults[i], kept)
                          <=> (fuseHits[i].hit /\ fuseHits[i].score < 20)
                       /\ (InSeq(allResults[i], kept)
                          => InSeq(allResults[i], out.views[1].records))

\* C20 witness: with no exact match, Fuse scored a record without a display
\* name below 0.2 together with a named one, and both were shown in the
\* table of the kept set.
C20_Witness ==
    /\ Resolved
    /\ ReachesFuse(query, allResults)
    /\ \E i \in Nameless :
          LET kept == SortedResults(allResults, fuseHits, FuzzyThreshold)
          IN  /\ Len(kept) = 2
              /\ InSeq(allResults[i], kept)
              /\ \E j \in 1 .. Len(allResults) :
                    j \notin Nameless /\ InSeq(allResults[j], kept)
              /\ out.views = <<TableView("Multiple matches found", kept)>>

\* C25 (as claimed): for any interleaving of overlapping withCache calls on
\* one key, the timestamp stored under the key never decreases: a write
\* never replaces an entry by one carrying an older timestamp.
C25_TimestampNeverDecreases ==
    [][ \A k \in Keys :
          (cache[k].present /\ cache'[k] # cache[k])
          => cache'[k].timestamp >= cache[k].timestamp
      ]_vars

\* C24 (as claimed): in the info command every source that
\* validateInputParameters accepts leads to the corresponding catalog being
\* queried: an accepted spelling of spigot queries Spigot, of modrinth
\* queries Modrinth, of all queries both by name; and a by-id lookup with an
\* accepted source ends with a success report or a failure report.
C24_AcceptedSourceIsQueried ==
    (/\ cmd = "info"
     /\ pc # "idle"
     /\ ValidateInputParameters(query, byId, source))
    => /\ ~Truthy(byId)
          => /\ ToLowerCase(source) \in {SrcSpigot, SrcAll}
                => spigotTask # "none"
             /\ ToLowerCase(source) \in {SrcModrinth, SrcAll}
                => modrinthTask # "none"
       /\ (Truthy(byId) /\ pc = "done")
          => out.spinner \in {"succeed", "fail"}

Untagged(results) == \A i \in 1 .. Len(results) : results[i].source = "none"

\* C22: the merged list is read-only for the disambiguation step and the
\* source tag is written once, at merge time: the list is built in the one
\* step that merges (and by no other step), after processSearchResults,
\* fuzzySearch and its sort it still holds the merged records in merge
\* order, each with the tag of the list it came from, and the adapters' own
\* records are never given a source tag nor changed by the merge.
C22_MergedListReadOnlyTagOnce ==
    [][ /\ allResults' # allResults
           => /\ pc = "searching"
              /\ pc' = "done"
              /\ allResults = <<>>
        /\ (pc = "searching" /\ pc' = "done")
           => /\ spigotResults' = spigotResults
              /\ modrinthResults' = modrinthResults
              /\ allResults' = Merge(spigotResults, modrinthResults)
              /\ \A i \in 1 .. Len(allResults') :
                    allResults'[i].source =
                       IF i <= Len(spigotResults) THEN "Spigot"
                       ELSE "Modrinth"
        /\ Untagged(spigotResults')
        /\ Untagged(modrinthResults')
      ]_vars

\* C22 witness: the info command went through the fuzzy pass, whose sort
\* put a Spigot record kept with a worse score in front of a Modrinth one,
\* and the merged list and both adapters' lists are as they were.
C22_Witness ==
    /\ Resolved
    /\ ReachesFuse(query, allResults)
    /\ Len(spigotResults) = 1
    /\ Len(modrinthResults) = 2
    /\ fuseHits[1].hit /\ fuseHits[1].score = 19
    /\ fuseHits[2].hit /\ fuseHits[2].score = 10
    /\ ~fuseHits[3].hit
    /\ out.views = <<TableView("Multiple matches found",
                               <<allResults[1], allResults[2]>>)>>
    /\ allResults = Merge(spigotResults, modrinthResults)
    /\ Untagged(spigotResults)
    /\ Untagged(modrinthResults)

\* The requests whose key is k.
SpigotRequestsOf(k) == {d \in SpigotRequests : SpigotKeyOf(d) = k}

ModrinthRequestsOf(k) == {d \in ModrinthRequests : ModrinthKeyOf(d) = k}

SpigotBegins(r) == reqs[r].st = "idle" /\ reqs'[r].st # "idle"

ModrinthBegins(s) == mreqs[s].st = "idle" /\ mreqs'[s].st # "idle"

\* C23: cache keys are namespaced: within an adapter's cache, every key a
\* request looks up or writes is the key of requests of one operation with
\* one set of effective arguments (query, effective limit, id) only; and
\* the two adapters keep apart: a Spigot request is answered from Spigot's
\* cache alone and changes nothing of Modrinth's, and the other way round,
\* even when both use the same key text.
C23_KeysNamespaced ==
    [][ /\ \A r \in ReqSlots :
              SpigotBegins(r)
              => /\ SpigotRequestsOf(reqs'[r].key) # {}
                 /\ \A d1, d2 \in SpigotRequestsOf(reqs'[r].key) :
                       SpigotEffective(d1) = SpigotEffective(d2)
                 /\ reqs'[r].hit <=> IsValid(cache[reqs'[r].key], clock)
                 /\ reqs'[r].hit
                    => returned'.value = cache[reqs'[r].key].data
        /\ \A k \in DOMAIN cache :
              cache'[k] # cache[k]
              => /\ \A d1, d2 \in SpigotRequestsOf(k) :
                       SpigotEffective(d1) = SpigotEffective(d2)
                 /\ UNCHANGED modrinthVars
        /\ \A s \in MSlots :
              ModrinthBegins(s)
              => /\ ModrinthRequestsOf(mreqs'[s].key) # {}
                 /\ \A d1, d2 \in ModrinthRequestsOf(mreqs'[s].key) :
                       ModrinthEffective(d1) = ModrinthEffective(d2)
                 /\ (mreqs'[s].st = "returned")
                    <=> IsValid(mcache[mreqs'[s].key], clock)
        /\ \A k \in DOMAIN mcache :
              mcache'[k] # mcache[k]
              => /\ \A d1, d2 \in ModrinthRequestsOf(k) :
                       ModrinthEffective(d1) = ModrinthEffective(d2)
                 /\ UNCHANGED <<cache, spigotVars>>
      ]_vars

\* C23 witness: Modrinth's cache holds a valid entry under a search key, and
\* a SpigotAPI call with the same key text has missed Spigot's cache and is
\* asking the catalog.
C23_Witness ==
    \E r \in ReqSlots :
        /\ reqs[r].st = "transport"
        /\ reqs[r].op = "search"
        /\ reqs[r].key \in DOMAIN mcache
        /\ IsValid(mcache[reqs[r].key], clock)
        /\ ~cache[reqs[r].key].present

====
